---- MODULE Spec2Model ----
(***************************************************************************)
(* Model of benchmark.py of dilated-attention-pytorch:                     *)
(*   - benchmark(fn, min_total_seconds, min_iterations): the adaptive      *)
(*     timing loop, one step per invocation of the timed callable;         *)
(*   - get_dilated_attention_for_seq_length(seq_length): the construction  *)
(*     of the (segment_length, dilation_rate) lists.                       *)
(* Time is measured in integer ticks of the timer; the ratio that ceil()   *)
(* is applied to is kept exact (numerator and denominator).                *)
(***************************************************************************)
EXTENDS Integers, Sequences, FiniteSets, TLC

VARIABLES
    pc,                 \* position inside benchmark()
    min_total_seconds,  \* argument of benchmark(), in ticks
    min_iterations,     \* argument of benchmark()
    calls,              \* the callable's own call counter
    raised_at,          \* the invocation at which the callable raised (0: never)
    times,              \* benchmark.times
    total_time,         \* benchmark.total_time
    num_iterations,     \* benchmark.num_iterations
    r,                  \* the durations timer.repeat has collected so far
    batch_times,        \* benchmark._times
    err,                \* the exception benchmark() ended with
    result,             \* the BenchmarkResult returned
    pcD,                \* position inside get_dilated_attention_for_seq_length()
    seq_length,         \* its argument
    segment_lengths,    \* its list segment_lengths
    dilation_rates      \* its list dilation_rates

bvars == <<pc, min_total_seconds, min_iterations, calls, raised_at, times,
           total_time, num_iterations, r, batch_times, err, result>>
dvars == <<pcD, seq_length, segment_lengths, dilation_rates>>
vars == <<pc, min_total_seconds, min_iterations, calls, raised_at, times,
          total_time, num_iterations, r, batch_times, err, result,
          pcD, seq_length, segment_lengths, dilation_rates>>

---------------------------------------------------------------------------
(* Bounds of the model *)

\* largest min_iterations tried
MaxIter == 3
\* largest min_total_seconds tried, in ticks
MaxSeconds == 4
\* longest duration of one invocation, in ticks
MaxDur == 2
\* a batch is started only while the timed trials stay within this number
MaxTrials == 10
\* sequence lengths 8192 * m, m \in 1..MaxMult, are tried beside the powers of two
MaxMult == 12

Durations == 0..MaxDur
IterInputs == (-1)..MaxIter
SecondsInputs == (-1)..MaxSeconds

---------------------------------------------------------------------------
(* Helpers *)

RECURSIVE SumSeq(_)
SumSeq(s) == IF s = <<>> THEN 0 ELSE Head(s) + SumSeq(Tail(s))

RECURSIVE SumSq(_)
SumSq(s) == IF s = <<>> THEN 0 ELSE Head(s) * Head(s) + SumSq(Tail(s))

Min(a, b) == IF a < b THEN a ELSE b
Max(a, b) == IF a > b THEN a ELSE b

\* a / b rounded down
FloorDiv(a, b) == a \div b

\* math.ceil(a / b) for b > 0
CeilDiv(a, b) == -((-a) \div b)

\* times_tensor.mean(): the sum over the count; 0/0 is nan
Mean(s) == [num |-> SumSeq(s), den |-> Len(s)]

\* times_tensor.std() squared: the sample variance; a zero denominator is nan
Variance(s) == [num |-> Len(s) * SumSq(s) - SumSeq(s) * SumSeq(s),
                den |-> Len(s) * (Len(s) - 1)]

BenchmarkResult(s) == [mean |-> Mean(s), std |-> Variance(s)]

NoResult == [mean |-> [num |-> 0, den |-> -1], std |-> [num |-> 0, den |-> -1]]

---------------------------------------------------------------------------
(* benchmark() *)

InitBenchmark ==
    /\ pc = "CALL"
    /\ min_total_seconds \in SecondsInputs
    /\ min_iterations \in IterInputs
    /\ calls = 0
    /\ raised_at = 0
    /\ times = <<>>
    /\ total_time = 0
    /\ num_iterations = 0
    /\ r = <<>>
    /\ batch_times = <<>>
    /\ err = "none"
    /\ result = NoResult

\* the callable is invoked and returns
FnReturns == calls' = calls + 1 /\ UNCHANGED raised_at

\* the callable is invoked and raises
FnRaises == calls' = calls + 1 /\ raised_at' = calls + 1

\* an exception leaves benchmark(): no local is touched any more
Propagate(e) ==
    /\ pc' = "ERROR"
    /\ err' = e
    /\ UNCHANGED <<times, total_time, num_iterations, r, batch_times, result>>

ArgsInvalidBelowOne == min_iterations < 1
\* if min_iterations < 2: raise ValueError
ArgsInvalid == min_iterations < 2

CheckArgs ==
    /\ pc = "CALL"
    /\ IF ArgsInvalid
       THEN Propagate("ValueError")
       ELSE /\ pc' = "WARMUP"
            /\ UNCHANGED <<times, total_time, num_iterations, r, batch_times,
                           err, result>>
    /\ UNCHANGED <<min_total_seconds, min_iterations, calls, raised_at>>

WarmupReturnsRecorded ==
    \E d \in Durations :
        /\ FnReturns
        /\ pc' = "ACCUMULATING"
        /\ times' = <<d>>
        /\ total_time' = d
        /\ num_iterations' = IF min_iterations # 0 THEN min_iterations ELSE 1
        /\ UNCHANGED <<r, batch_times, err, result>>

\* timer.repeat(number=1, repeat=1) discarded, then the locals are set up
WarmupReturns ==
    \E d \in Durations :
        /\ FnReturns
        /\ pc' = "ACCUMULATING"
        /\ times' = <<>>
        /\ total_time' = 0
        /\ num_iterations' = IF min_iterations # 0 THEN min_iterations ELSE 1
        /\ UNCHANGED <<r, batch_times, err, result>>

WarmupRaises == FnRaises /\ Propagate("CallableError")

Warmup ==
    /\ pc = "WARMUP"
    /\ (WarmupReturns \/ WarmupRaises)
    /\ UNCHANGED <<min_total_seconds, min_iterations>>

\* while total_time < min_total_seconds: timer.repeat starts a batch
LoopEnter ==
    /\ pc = "ACCUMULATING"
    /\ total_time < min_total_seconds
    /\ Len(times) + num_iterations <= MaxTrials
    /\ pc' = "BATCH"
    /\ r' = <<>>
    /\ UNCHANGED <<min_total_seconds, min_iterations, calls, raised_at, times,
                   total_time, num_iterations, batch_times, err, result>>

TrialReturns ==
    \E d \in Durations :
        /\ FnReturns
        /\ r' = Append(r, d)
        /\ UNCHANGED <<pc, times, total_time, num_iterations, batch_times,
                       err, result>>

TrialRaisesRetried ==
    /\ FnRaises
    /\ UNCHANGED <<pc, times, total_time, num_iterations, r, batch_times,
                   err, result>>

TrialRaises == FnRaises /\ Propagate("CallableError")

\* one of the num_iterations timed invocations of timer.repeat
Trial ==
    /\ pc = "BATCH"
    /\ Len(r) < num_iterations
    /\ (TrialReturns \/ TrialRaises)
    /\ UNCHANGED <<min_total_seconds, min_iterations>>

\* the average duration the estimate divides by, as sum over count
AvgTimeAllBatches(all, batch, n) == [num |-> SumSeq(all), den |-> Len(all)]
AvgTime(all, batch, n) == [num |-> SumSeq(batch), den |-> n]

\* timer.repeat returned: the rest of the loop body
BatchEnd ==
    /\ pc = "BATCH"
    /\ Len(r) >= num_iterations
    /\ batch_times' = r
    /\ times' = times \o r
    /\ total_time' = total_time + SumSeq(r)
    /\ LET avg_time == AvgTime(times', r, num_iterations) IN
       IF avg_time.num = 0 \/ avg_time.den = 0
       THEN /\ pc' = "ERROR"
            /\ err' = "ZeroDivisionError"
            /\ UNCHANGED num_iterations
       ELSE /\ pc' = "ACCUMULATING"
            /\ num_iterations' =
                 CeilDiv((min_total_seconds - total_time') * avg_time.den,
                         avg_time.num)
            /\ UNCHANGED err
    /\ UNCHANGED <<min_total_seconds, min_iterations, calls, raised_at, r, result>>

\* the loop condition is false: the result is built and returned
Return ==
    /\ pc = "ACCUMULATING"
    /\ ~(total_time < min_total_seconds)
    /\ pc' = "DONE"
    /\ result' = BenchmarkResult(times)
    /\ UNCHANGED <<min_total_seconds, min_iterations, calls, raised_at, times,
                   total_time, num_iterations, r, batch_times, err>>

NextBenchmark == CheckArgs \/ Warmup \/ LoopEnter \/ Trial \/ BatchEnd \/ Return

---------------------------------------------------------------------------
(* get_dilated_attention_for_seq_length() *)

SEGMENT_LENGTHS == <<8192, 16384, 32768, 65536>>
DILATED_SEQ_LENGTHS == {2^i : i \in 13..26}

SeqInputs == DILATED_SEQ_LENGTHS \cup {SEGMENT_LENGTHS[1] * m : m \in 1..MaxMult}

InitDilated ==
    /\ pcD = "LOOP"
    /\ seq_length \in SeqInputs
    /\ segment_lengths = <<>>
    /\ dilation_rates = <<>>

SegmentLengthUnclamped(entry, n) == entry
\* segment_length = min(segment_length, seq_length)
SegmentLength(entry, n) == Min(entry, n)

\* exponent = segment_length // SEGMENT_LENGTHS[0] - 1; 2 ** exponent
DilationRate(seg) == 2^((seg \div SEGMENT_LENGTHS[1]) - 1)

\* one iteration of the for loop over SEGMENT_LENGTHS
DilatedStep ==
    /\ pcD = "LOOP"
    /\ Len(segment_lengths) < Len(SEGMENT_LENGTHS)
    /\ LET segment_length ==
             SegmentLength(SEGMENT_LENGTHS[Len(segment_lengths) + 1], seq_length)
       IN /\ segment_lengths' = Append(segment_lengths, segment_length)
          /\ dilation_rates' = Append(dilation_rates, DilationRate(segment_length))
    /\ UNCHANGED <<pcD, seq_length>>

\* the loop is over: DilatedAttention(segment_lengths, dilation_rates) is built
DilatedReturn ==
    /\ pcD = "LOOP"
    /\ Len(segment_lengths) = Len(SEGMENT_LENGTHS)
    /\ pcD' = "DONE"
    /\ UNCHANGED <<seq_length, segment_lengths, dilation_rates>>

NextDilated == DilatedStep \/ DilatedReturn

---------------------------------------------------------------------------
(* Specifications *)

\* get_dilated_attention_for_seq_length() not running
IdleDilated ==
    /\ pcD = "IDLE"
    /\ seq_length = 0
    /\ segment_lengths = <<>>
    /\ dilation_rates = <<>>

\* benchmark() not running
IdleBenchmark ==
    /\ pc = "IDLE"
    /\ min_total_seconds = 0
    /\ min_iterations = 0
    /\ calls = 0
    /\ raised_at = 0
    /\ times = <<>>
    /\ total_time = 0
    /\ num_iterations = 0
    /\ r = <<>>
    /\ batch_times = <<>>
    /\ err = "none"
    /\ result = NoResult

Init == InitBenchmark /\ IdleDilated
Next == NextBenchmark /\ UNCHANGED dvars
Spec == Init /\ [][Next]_vars

\* benchmark() is sequential code: it keeps running while it has a step to take
FairSpec == Init /\ [][Next]_vars /\ WF_vars(Next)

InitD == InitDilated /\ IdleBenchmark
NextD == NextDilated /\ UNCHANGED bvars
SpecDilated == InitD /\ [][NextD]_vars

---------------------------------------------------------------------------
(* Properties of benchmark() *)

\* a batch that the bound MaxTrials keeps the model from starting
Truncated ==
    /\ pc = "ACCUMULATING"
    /\ total_time < min_total_seconds
    /\ Len(times) + num_iterations > MaxTrials

\* C1: with min_iterations < 2 the call ends with ValueError before the
\* callable is ever invoked (its counter is 0) and without a result; the
\* error is raised for no other min_iterations.
C1_InvalidArgument ==
    /\ (min_iterations < 2 /\ pc \notin {"CALL", "IDLE"}) =>
          /\ pc = "ERROR"
          /\ err = "ValueError"
          /\ calls = 0
          /\ result = NoResult
    /\ err = "ValueError" => min_iterations < 2

C1_Witness ==
    pc = "ERROR" /\ err = "ValueError" /\ min_iterations = 1 /\ calls = 0

\* C2: whenever a result is returned, at least min_iterations trials were
\* recorded and their durations sum to at least min_total_seconds.
C2_MinimumsMet ==
    pc = "DONE" =>
        /\ Len(times) >= min_iterations
        /\ SumSeq(times) >= min_total_seconds

\* C2 restricted to a positive budget: there the guarantee holds.
C2_PositiveBudget ==
    (pc = "DONE" /\ min_total_seconds > 0) =>
        /\ Len(times) >= min_iterations
        /\ SumSeq(times) >= min_total_seconds

\* C3: for a callable of constant duration d > 0, a returned run has made at
\* least max(min_iterations, ceil(min_total_seconds / d)) timed trials.
C3_ConstantDuration ==
    \A d \in 1..MaxDur :
        (pc = "DONE" /\ \A i \in 1..Len(times) : times[i] = d) =>
            Len(times) >= Max(min_iterations, CeilDiv(min_total_seconds, d))

\* C3 restricted to a positive budget: there the bound holds.
C3_PositiveBudget ==
    \A d \in 1..MaxDur :
        (pc = "DONE" /\ min_total_seconds > 0
            /\ \A i \in 1..Len(times) : times[i] = d) =>
            Len(times) = Max(min_iterations, CeilDiv(min_total_seconds, d))

\* C4: the one warm-up invocation comes before every timed trial and is not
\* recorded: while the callable has not raised, its counter is one more than
\* the durations collected, and the returned mean is over counter - 1 values.
C4_WarmupExcluded ==
    /\ pc \in {"CALL", "WARMUP"} => (calls = 0 /\ times = <<>> /\ r = <<>>)
    /\ pc = "ACCUMULATING" => calls = 1 + Len(times)
    /\ pc = "BATCH" => calls = 1 + Len(times) + Len(r)
    /\ pc = "DONE" =>
          /\ calls = 1 + Len(times)
          /\ result.mean.den = calls - 1
          /\ result.mean.num = SumSeq(times)

C4_Witness ==
    pc = "DONE" /\ calls = 4 /\ Len(times) = 3 /\ result.mean.den = 3

\* C5: when the callable raises on its n-th invocation, benchmark ends with
\* that error, without a result, the callable has been invoked exactly n
\* times and no further step (no retry) is taken.
C5_CallableErrorPropagates ==
    /\ raised_at # 0 =>
          /\ pc = "ERROR"
          /\ err = "CallableError"
          /\ result = NoResult
          /\ calls = raised_at
          /\ ~ ENABLED Next
    /\ err = "CallableError" => raised_at # 0

C5_Witness ==
    pc = "ERROR" /\ err = "CallableError" /\ raised_at = 2 /\ calls = 2

\* C6: a run whose callable always returns leaves the accumulation loop with
\* a result.
C6_LoopTerminates ==
    (pc = "ACCUMULATING") ~> (pc = "DONE" \/ err = "CallableError" \/ Truncated)

\* C6 without the zero-duration abort: the loop does end, with a result or
\* with an error.
C6_LoopEnds ==
    (pc = "ACCUMULATING") ~> (pc \in {"DONE", "ERROR"} \/ Truncated)

\* C7: while the budget is not met, the next batch has
\* ceil((min_total_seconds - elapsed) / avg) trials, avg being the average
\* over all the trials recorded so far.
C7_AllBatchesAverage ==
    (pc \in {"ACCUMULATING", "BATCH"} /\ times # <<>>
        /\ total_time < min_total_seconds) =>
        /\ SumSeq(times) > 0
        /\ num_iterations =
             CeilDiv((min_total_seconds - SumSeq(times)) * Len(times), SumSeq(times))

\* C7 as amended: every batch after the first has
\* ceil((min_total_seconds - elapsed) / avg) trials, avg being the average
\* duration of the most recent batch only, which is positive.
C7_LastBatchAverage ==
    (pc \in {"ACCUMULATING", "BATCH"} /\ times # <<>>
        /\ total_time < min_total_seconds) =>
        /\ SumSeq(batch_times) > 0
        /\ num_iterations =
             CeilDiv((min_total_seconds - SumSeq(times)) * Len(batch_times),
                     SumSeq(batch_times))

\* a third batch is running and the last batch's average differs from the
\* average over all trials
C7_Witness ==
    /\ pc = "BATCH"
    /\ Len(r) = num_iterations
    /\ Len(times) > Len(batch_times)
    /\ SumSeq(times) * Len(batch_times) # SumSeq(batch_times) * Len(times)

\* C8: a batch whose measured durations are all zero does not end the run
\* with a division error.
C8_ZeroBatchGuarded ==
    (batch_times # <<>> /\ SumSeq(batch_times) = 0) => err # "ZeroDivisionError"

\* C9: at the loop condition total_time is the sum of times; a batch is
\* entered only with num_iterations >= 1, the first with exactly
\* min_iterations; every loop iteration records at least one more trial.
C9_LoopInvariant ==
    /\ [](pc = "ACCUMULATING" => total_time = SumSeq(times))
    /\ [](pc = "BATCH" => num_iterations >= 1)
    /\ []((pc = "BATCH" /\ times = <<>>) => num_iterations = min_iterations)
    /\ [][(pc = "BATCH" /\ pc' # "BATCH" /\ raised_at' = raised_at) =>
            Len(times') > Len(times)]_vars

\* a second batch has been entered
C9_Witness ==
    pc = "BATCH" /\ times # <<>> /\ num_iterations = 1 /\ Len(r) = 1

---------------------------------------------------------------------------
(* Properties of get_dilated_attention_for_seq_length() *)

\* C10: for seq_length in DILATED_SEQ_LENGTHS, one pair per entry of
\* SEGMENT_LENGTHS, in order; segment_length = min(entry, seq_length) is at
\* most seq_length and divides it; dilation_rate = 2^(segment_length // 8192 - 1)
\* is a positive integer dividing segment_length.
C10_DilatedConfiguration ==
    seq_length \in DILATED_SEQ_LENGTHS =>
        /\ Len(dilation_rates) = Len(segment_lengths)
        /\ pcD = "DONE" => Len(segment_lengths) = Len(SEGMENT_LENGTHS)
        /\ \A i \in 1..Len(segment_lengths) :
              /\ segment_lengths[i] = Min(SEGMENT_LENGTHS[i], seq_length)
              /\ segment_lengths[i] <= seq_length
              /\ seq_length % segment_lengths[i] = 0
              /\ dilation_rates[i] = 2^((segment_lengths[i] \div 8192) - 1)
              /\ dilation_rates[i] >= 1
              /\ segment_lengths[i] % dilation_rates[i] = 0

C10_Witness ==
    /\ pcD = "DONE"
    /\ seq_length = 16384
    /\ segment_lengths = <<8192, 16384, 16384, 16384>>
    /\ dilation_rates = <<1, 2, 2, 2>>

====
